---- MODULE Spec2Model ----
(***************************************************************************)
(* Binary Merkle tree over a content-addressed node store: the writer      *)
(* TreeDBMut (staged overlay, path copy on insert, commit), the reader     *)
(* TreeDB, the node model and its bincode wire form, the Recorder with the *)
(* StorageProof built from it, and the node indices of indices.rs.         *)
(*                                                                         *)
(* Byte strings are sequences of symbols <<tag, payload>>:                 *)
(*   <<"b", n>>    one raw byte                                            *)
(*   <<"u32", n>>  a little-endian u32 (4 bytes), bincode's variant index  *)
(*   <<"u24", n>>  the last 3 bytes of a little-endian u32 of value 256n+b *)
(*   <<"u64", n>>  a little-endian u64 (8 bytes), bincode's length prefix  *)
(*   <<"h", s>>    the LENGTH bytes of the digest of the byte string s     *)
(* The hash function is collision free: the digest of s is the symbol      *)
(* <<"h", s>>, so two digests are equal exactly when the hashed byte       *)
(* strings are equal.                                                      *)
(***************************************************************************)
EXTENDS Integers, Sequences, FiniteSets, TLC

----------------------------------------------------------------------------
(* Bounds of the model *)

Depth == 2
MaxInserts == 2
MaxReads == 2
MaxPrefix == 4
MaxLayer == 3
MaxList == 3

(* Program constants *)

LENGTH == 32

----------------------------------------------------------------------------
(* Bytes and digests *)

B(n) == <<"b", n>>
U32(n) == <<"u32", n>>
U64(n) == <<"u64", n>>

SymLen(y) ==
    CASE y[1] = "b" -> 1
      [] y[1] = "u32" -> 4
      [] y[1] = "u24" -> 3
      [] y[1] = "u64" -> 8
      [] OTHER -> LENGTH

RECURSIVE ByteLen(_)
ByteLen(s) == IF s = <<>> THEN 0 ELSE SymLen(Head(s)) + ByteLen(Tail(s))

(* H::hash: the digest of a byte string. *)
Hash(s) == <<"h", s>>

(* H::Out as bytes (as_ref().to_vec()). *)
AsBytes(d) == IF d[1] = "raw" THEN d[2] ELSE <<d>>

(* decode_hash: Some(digest) when the data is LENGTH bytes long, else None. *)
decode_hash(data) ==
    IF ByteLen(data) # LENGTH THEN <<"None">>
    ELSE IF Len(data) = 1 /\ data[1][1] = "h" THEN <<"Some", data[1]>>
    ELSE <<"Some", <<"raw", data>>>>

----------------------------------------------------------------------------
(* Results *)

Ok(x) == <<"Ok", x>>
Err(e) == <<"Err", e>>
Panic == <<"Panic", "unwrap">>
IsOk(r) == r[1] = "Ok"

----------------------------------------------------------------------------
(* Nodes: <<"Value", provenance, bytes>> and <<"Inner", left, right>>,     *)
(* child references <<"Hash", d>> and <<"InMemory", d>>.                   *)

HashRef(d) == <<"Hash", d>>
InMemory(d) == <<"InMemory", d>>
get_hash(ref) == ref[2]

ValueNode(prov, v) == <<"Value", prov, v>>
InnerNode(l, r) == <<"Inner", l, r>>
IsValue(n) == n[1] = "Value"
IsInner(n) == n[1] = "Inner"

(* EncodedNode: <<"Value", bytes, <<>>>> and <<"Inner", left bytes, right bytes>> *)
EncValue(v) == <<"Value", v, <<>>>>
EncInner(l, r) == <<"Inner", l, r>>

(* Mutant of ToEncoded: the children of an inner node change sides. *)
ToEncoded_swapped(n) ==
    IF IsValue(n) THEN EncValue(n[3])
    ELSE EncInner(AsBytes(get_hash(n[3])), AsBytes(get_hash(n[2])))

(* From<Node<H>> for EncodedNode *)
ToEncoded(n) ==
    IF IsValue(n) THEN EncValue(n[3])
    ELSE EncInner(AsBytes(get_hash(n[2])), AsBytes(get_hash(n[3])))

(* TryFrom<EncodedNode> for Node<H> *)

(* The inner node of two decoded child digests l and r. *)
inner_of_decoded(l, r) ==
    IF l[1] = "None" \/ r[1] = "None"
    THEN Err("NodeDeserializationFailed")
    ELSE Ok(InnerNode(HashRef(l[2]), HashRef(r[2])))

TryFromEncoded(e) ==
    IF e[1] = "Value" THEN Ok(ValueNode("Cached", e[2]))
    ELSE inner_of_decoded(decode_hash(e[2]), decode_hash(e[3]))

(* Node::hash: the value bytes, or left || right, hashed. *)
NodeHashOf(n) ==
    IF IsValue(n) THEN Hash(n[3])
    ELSE Hash(AsBytes(get_hash(n[2])) \o AsBytes(get_hash(n[3])))

(* EncodedNode::hash *)
encoded_hash(e) ==
    IF e[1] = "Value" THEN Hash(e[2]) ELSE Hash(e[2] \o e[3])

(* Node::get_child *)
get_child(n, bit) ==
    IF bit = 0 \/ bit = 1
    THEN IF IsValue(n) THEN Err("UnexpectedNodeType")
         ELSE Ok(IF bit = 0 THEN n[2] ELSE n[3])
    ELSE Err("NodeIndexOutOfBounds")

(* Mutant of set_child_hash: the other child is replaced. *)
set_child_hash_swapped(n, bit, ref) ==
    IF bit = 0 THEN InnerNode(n[2], ref) ELSE InnerNode(ref, n[3])

(* Node::set_child_hash: the node with the child replaced (the caller has  *)
(* already seen get_child succeed on the same node and bit).               *)
set_child_hash(n, bit, ref) ==
    IF bit = 0 THEN InnerNode(ref, n[3]) ELSE InnerNode(n[2], ref)

(* Node::get_value *)
get_value_of(n) ==
    IF IsValue(n) THEN Ok(n[3]) ELSE Err("UnexpectedNodeType")

----------------------------------------------------------------------------
(* bincode wire form of EncodedNode *)

serialize(e) ==
    IF e[1] = "Value"
    THEN <<U32(0), U64(ByteLen(e[2]))>> \o e[2]
    ELSE <<U32(1), U64(ByteLen(e[2]))>> \o e[2] \o <<U64(ByteLen(e[3]))>> \o e[3]

(* The number of leading symbols of s that make up exactly n bytes, or -1. *)
RECURSIVE TakeLen(_, _)
OneMore(k) == IF k = -1 THEN -1 ELSE k + 1
TakeLen(s, n) ==
    IF n = 0 THEN 0
    ELSE IF s = <<>> \/ SymLen(Head(s)) > n THEN -1
    ELSE OneMore(TakeLen(Tail(s), n - SymLen(Head(s))))

(* Reads a Vec<u8> (u64 length, then the bytes) from the front of s:       *)
(* <<"Ok", bytes, rest>> or <<"Err">>.                                     *)

(* The vector made of the k symbols after the length prefix. *)
VecOf(s, k) ==
    IF k = -1 THEN <<"Err">>
    ELSE <<"Ok", SubSeq(s, 2, k + 1), SubSeq(s, k + 2, Len(s))>>

ReadVec(s) ==
    IF s = <<>> \/ s[1][1] # "u64" THEN <<"Err">>
    ELSE VecOf(s, TakeLen(Tail(s), s[1][2]))

(* bincode::deserialize::<EncodedNode>: Ok(encoded node) or Err. *)

(* Variant 0 after its vector v was read. *)
deserialize_value(v) ==
    IF v[1] = "Err" THEN Err("bincode") ELSE Ok(EncValue(v[2]))

(* Variant 1 after its vectors l and r were read. *)
deserialize_right(l, r) ==
    IF r[1] = "Err" THEN Err("bincode") ELSE Ok(EncInner(l[2], r[2]))

deserialize_inner(l) ==
    IF l[1] = "Err" THEN Err("bincode") ELSE deserialize_right(l, ReadVec(l[3]))

deserialize(data) ==
    IF data = <<>> \/ data[1][1] # "u32" THEN Err("bincode")
    ELSE IF data[1][2] = 0 THEN deserialize_value(ReadVec(Tail(data)))
    ELSE IF data[1][2] = 1 THEN deserialize_inner(ReadVec(Tail(data)))
    ELSE Err("bincode")

(* The bytes a node is stored as. *)
Encode(n) == serialize(ToEncoded(n))

----------------------------------------------------------------------------
(* Finite maps (HashMap, the store's table) *)

EmptyMap == [x \in {} |-> <<>>]
Put(f, k, v) == [x \in (DOMAIN f) \cup {k} |-> IF x = k THEN v ELSE f[x]]
Remove(f, k) == [x \in (DOMAIN f) \ {k} |-> f[x]]

(* Mutant of emplace: an entry that is already present is overwritten. *)
emplace_overwrites(store, key, value) == Put(store, key, value)

(* HashDB::emplace as the store the repository runs on implements it: an   *)
(* entry that is already present keeps its bytes (only its reference count *)
(* goes up, and nothing ever removes).                                     *)
emplace(store, key, value) ==
    IF key \in DOMAIN store THEN store ELSE Put(store, key, value)

(* Stored<H>: an overlay entry *)
StoredNew(n) == <<"New", n>>
StoredCached(n) == <<"Cached", n>>
get_node(st) == st[2]

----------------------------------------------------------------------------
(* State *)

VARIABLES
    db,           \* NodeStore: digest -> stored bytes
    root,         \* the externally-held root digest (*self.root)
    storage,      \* the writer's overlay: digest -> Stored<H>
    root_handle,  \* the writer's root handle: Hash(d) stored, InMemory(d) staged
    last,         \* the last call and what it returned
    ninserts,     \* number of insert calls so far
    roots,        \* every digest the externally-held root has had so far
    emplaced,     \* the emplace calls <<key, bytes>> the last call made, in order
    snapshot,     \* the store and the external root as the last commit left them
    recorder,     \* Recorder.nodes: the nodes recorded so far
    reads,        \* the calls made on the reader the recorder is attached to
    mapping       \* the value the writer was given for every key: the tree it
                  \* was built over, changed by its successful inserts

vars == <<db, root, storage, root_handle, last, ninserts, roots, emplaced, snapshot,
          recorder, reads, mapping>>

----------------------------------------------------------------------------
(* TreeDBMut::lookup: overlay first, then the store. *)

(* The node of stored bytes that deserialized to e (unwrap, then try_into). *)
node_of_stored(e) == IF ~IsOk(e) THEN Panic ELSE TryFromEncoded(e[2])

lookup(ovl, store, key) ==
    IF key \in DOMAIN ovl THEN Ok(get_node(ovl[key]))
    ELSE IF key \notin DOMAIN store THEN Err("DataNotFound")
    ELSE node_of_stored(deserialize(store[key]))

(* The loop of TreeDBMut::get from current_node over the bits of key. *)
RECURSIVE walk(_, _, _, _)

(* After the lookup of the child digest returned n. *)
walk_from(ovl, store, key, n) ==
    IF ~IsOk(n) THEN n ELSE walk(ovl, store, n[2], Tail(key))

(* After get_child returned c. *)
walk_child(ovl, store, key, c) ==
    IF ~IsOk(c) THEN c
    ELSE walk_from(ovl, store, key, lookup(ovl, store, get_hash(c[2])))

walk(ovl, store, current_node, key) ==
    IF key = <<>> THEN Ok(current_node)
    ELSE walk_child(ovl, store, key, get_child(current_node, Head(key)))

(* TreeDBMut::get *)

(* After the lookup of the root handle returned r. *)
get_from(ovl, store, key, r) ==
    IF ~IsOk(r) THEN r ELSE walk(ovl, store, r[2], key)

get(ovl, store, handle, key) ==
    get_from(ovl, store, key, lookup(ovl, store, get_hash(handle)))

(* TreeMut::get_value for TreeDBMut *)

(* node.get_value() mapped over the result n of get. *)
value_of_got(n) == IF ~IsOk(n) THEN n ELSE get_value_of(n[2])

get_value(ovl, store, handle, key) ==
    IF Len(key) # Depth THEN Err("IndexOutOfBounds")
    ELSE value_of_got(get(ovl, store, handle, key))

(* TreeMut::get_leaf for TreeDBMut *)

(* The digest of the child reference c. *)
hash_of_child(c) == IF ~IsOk(c) THEN c ELSE Ok(get_hash(c[2]))

(* node.get_child(bit) mapped over the result n of get. *)
leaf_of_got(n, bit) == IF ~IsOk(n) THEN n ELSE hash_of_child(get_child(n[2], bit))

get_leaf(ovl, store, handle, key) ==
    IF Len(key) # Depth THEN Err("IndexOutOfBounds")
    ELSE leaf_of_got(get(ovl, store, handle, SubSeq(key, 1, Len(key) - 1)),
                     key[Len(key)])

----------------------------------------------------------------------------
(* TreeDBMut::insert_at: <<result, current_node as left by the call, overlay>>; *)
(* the result is Ok(the node the old leaf digest resolved to) or the error *)
(* of the first failing get_child or lookup.                               *)

(* Mutant of stage_child: the child goes into the overlay and the          *)
(* reference current_node holds stays as it was.                           *)
stage_child_unlinked(res, current_node, bit, child, ovl) ==
    <<res, current_node, Put(ovl, NodeHashOf(child), StoredNew(child))>>

(* The tail of both branches: the child reference of current_node becomes  *)
(* InMemory(hash of child) and child goes into the overlay under its hash. *)
stage_child(res, current_node, bit, child, ovl) ==
    <<res, set_child_hash(current_node, bit, InMemory(NodeHashOf(child))),
      Put(ovl, NodeHashOf(child), StoredNew(child))>>

(* After the recursive call returned r. *)
insert_above(current_node, bit, r) ==
    IF ~IsOk(r[1]) THEN <<r[1], current_node, r[3]>>
    ELSE stage_child(r[1], current_node, bit, r[2], r[3])

RECURSIVE insert_at(_, _, _, _, _)

(* Mutant of insert_below: at the leaf level the new value node is handed *)
(* back in place of the node the old leaf digest resolved to.             *)
insert_below_returns_new(ovl, store, current_node, key, value, n) ==
    IF ~IsOk(n) THEN <<n, current_node, ovl>>
    ELSE IF Len(key) = 1
    THEN stage_child(Ok(ValueNode("New", value)), current_node, Head(key),
                     ValueNode("New", value), ovl)
    ELSE insert_above(current_node, Head(key),
                      insert_at(ovl, store, n[2], Tail(key), value))

(* After the lookup of the child digest returned n. *)
insert_below(ovl, store, current_node, key, value, n) ==
    IF ~IsOk(n) THEN <<n, current_node, ovl>>
    ELSE IF Len(key) = 1
    THEN stage_child(n, current_node, Head(key), ValueNode("New", value), ovl)
    ELSE insert_above(current_node, Head(key),
                      insert_at(ovl, store, n[2], Tail(key), value))

(* After get_child returned c. *)
insert_child(ovl, store, current_node, key, value, c) ==
    IF ~IsOk(c) THEN <<c, current_node, ovl>>
    ELSE insert_below(ovl, store, current_node, key, value,
                      lookup(ovl, store, get_hash(c[2])))

insert_at(ovl, store, current_node, key, value) ==
    insert_child(ovl, store, current_node, key, value,
                 get_child(current_node, Head(key)))

(* TreeMut::insert for TreeDBMut: [res, storage, root_handle] after the call. *)

(* After insert_at returned r. *)
insert_root(handle, r) ==
    IF ~IsOk(r[1])
    THEN [res |-> r[1], storage |-> r[3], root_handle |-> handle]
    ELSE [res |-> get_value_of(r[1][2]),
          storage |-> Put(r[3], NodeHashOf(r[2]), StoredNew(r[2])),
          root_handle |-> InMemory(NodeHashOf(r[2]))]

(* After the lookup of the root handle returned rd. *)
insert_from(ovl, store, handle, key, value, rd) ==
    IF ~IsOk(rd)
    THEN [res |-> rd, storage |-> ovl, root_handle |-> handle]
    ELSE insert_root(handle, insert_at(ovl, store, rd[2], key, value))

(* Mutant of insert: the key length is not checked. *)
insert_unchecked(ovl, store, handle, key, value) ==
    insert_from(ovl, store, handle, key, value, lookup(ovl, store, get_hash(handle)))

insert(ovl, store, handle, key, value) ==
    IF Len(key) # Depth
    THEN [res |-> Err("IndexOutOfBounds"), storage |-> ovl, root_handle |-> handle]
    ELSE insert_from(ovl, store, handle, key, value,
                     lookup(ovl, store, get_hash(handle)))

----------------------------------------------------------------------------
(* TreeDBMut::commit_child: <<overlay, store, emplace calls made>> after   *)
(* the call; an emplace call is the pair <<key, bytes>> handed to the      *)
(* store.                                                                  *)
RECURSIVE commit_child(_, _, _)

(* The calls made so far, the emplace of bytes under hash, and what the    *)
(* recursive call r made.                                                  *)
commit_logged(log, hash, bytes, r) ==
    <<r[1], r[2], log \o <<<<hash, bytes>>>> \o r[3]>>

(* Some(Stored::New(node)) was removed from the overlay under hash. *)
commit_new(ovl, store, log, hash, node) ==
    commit_logged(log, hash, Encode(node),
                  commit_child(ovl, emplace(store, hash, Encode(node)), node))

(* What self.storage.remove(&hash) gave: entry, with ovl the overlay left. *)
commit_removed(ovl, store, log, hash, entry) ==
    IF entry[1] = "Cached" THEN <<ovl, store, log>>
    ELSE commit_new(ovl, store, log, hash, get_node(entry))

commit_ref(st, ref) ==
    IF ref[1] = "Hash" THEN st
    ELSE IF get_hash(ref) \notin DOMAIN st[1] THEN st
    ELSE commit_removed(Remove(st[1], get_hash(ref)), st[2], st[3],
                        get_hash(ref), st[1][get_hash(ref)])

commit_child(ovl, store, node) ==
    IF IsInner(node)
    THEN commit_ref(commit_ref(<<ovl, store, <<>>>>, node[2]), node[3])
    ELSE IF node[2] = "Cached" THEN <<ovl, store, <<>>>>
         ELSE <<ovl, emplace(store, Hash(node[3]), node[3]),
                <<<<Hash(node[3]), node[3]>>>>>>

(* The root node was removed from the overlay as Stored::New(node) and     *)
(* emplaced: the state and the emplace calls of commit afterwards.         *)
commit_new_root(store, root_hash, node, st) ==
    [storage |-> st[1], db |-> st[2], root |-> root_hash,
     root_handle |-> HashRef(root_hash),
     emplaced |-> <<<<root_hash, Encode(node)>>>> \o st[3]]

(* Mutant of commit_root: the root handle is left staged after the drain. *)
commit_root_stays_staged(ovl, store, root_hash, entry) ==
    IF entry[1] = "New"
    THEN [commit_new_root(store, root_hash, get_node(entry),
                          commit_child(Remove(ovl, root_hash),
                                       emplace(store, root_hash, Encode(get_node(entry))),
                                       get_node(entry)))
             EXCEPT !.root_handle = InMemory(root_hash)]
    ELSE [storage |-> ovl, db |-> store, root |-> root_hash,
          root_handle |-> InMemory(root_hash), emplaced |-> <<>>]

(* What self.storage.remove(&root_hash) gave: entry. *)
commit_root(ovl, store, root_hash, entry) ==
    IF entry[1] = "New"
    THEN commit_new_root(store, root_hash, get_node(entry),
                         commit_child(Remove(ovl, root_hash),
                                      emplace(store, root_hash, Encode(get_node(entry))),
                                      get_node(entry)))
    ELSE [storage |-> ovl, db |-> store, root |-> root_hash,
          root_handle |-> InMemory(root_hash), emplaced |-> <<>>]

(* TreeDBMut::commit: [storage, db, root, root_handle] after the call and  *)
(* the emplace calls it made, in order.                                    *)
commit(ovl, store, ext_root, handle) ==
    IF handle[1] = "Hash" \/ get_hash(handle) \notin DOMAIN ovl
    THEN [storage |-> ovl, db |-> store, root |-> ext_root, root_handle |-> handle,
          emplaced |-> <<>>]
    ELSE commit_root(ovl, store, get_hash(handle), ovl[get_hash(handle)])

----------------------------------------------------------------------------
(* The reader, TreeDB, over a store and a root digest *)

(* One stored entry read as the reader reads it. *)

(* bincode::deserialize(..).unwrap() *)
unwrap_node(e) == IF ~IsOk(e) THEN Panic ELSE e

tree_read(store, key) ==
    IF key \notin DOMAIN store THEN Err("DataNotFound")
    ELSE unwrap_node(deserialize(store[key]))

(* The loop of TreeDB::get: any bit other than 0 takes the right child. *)
RECURSIVE tree_walk(_, _, _)

(* After the child entry was read as n. *)
tree_walk_from(store, key, n) ==
    IF ~IsOk(n) THEN n ELSE tree_walk(store, n[2], Tail(key))

(* After decode_hash of the chosen child gave k. *)
tree_walk_child(store, key, k) ==
    IF k[1] = "None" THEN Panic
    ELSE tree_walk_from(store, key, tree_read(store, k[2]))

tree_walk(store, current_node, key) ==
    IF key = <<>> THEN Ok(current_node)
    ELSE IF current_node[1] # "Inner" THEN Err("UnexpectedNodeType")
    ELSE tree_walk_child(store, key,
                         decode_hash(IF Head(key) = 0 THEN current_node[2]
                                     ELSE current_node[3]))

(* TreeDB::get *)

(* After the root entry was read as n. *)
tree_get_from(store, key, n) ==
    IF ~IsOk(n) THEN n ELSE tree_walk(store, n[2], key)

tree_get(store, r, key) == tree_get_from(store, key, tree_read(store, r))

(* Tree::get_value for TreeDB *)

(* The match on the result n of get. *)
tree_value_of(n) ==
    IF ~IsOk(n) THEN n
    ELSE IF n[2][1] = "Value" THEN Ok(n[2][2]) ELSE Err("UnexpectedNodeType")

tree_get_value(store, r, key) ==
    IF Len(key) # Depth THEN Err("IndexOutOfBounds")
    ELSE tree_value_of(tree_get(store, r, key))

(* Tree::get_leaf for TreeDB: the child's digest as bytes. *)

(* Mutant of tree_leaf_of: the child on the other side is returned. *)
tree_leaf_of_other(n, bit) ==
    IF ~IsOk(n) THEN n
    ELSE IF n[2][1] = "Inner" THEN Ok(IF bit = 0 THEN n[2][3] ELSE n[2][2])
    ELSE Err("UnexpectedNodeType")

(* The match on the result n of get. *)
tree_leaf_of(n, bit) ==
    IF ~IsOk(n) THEN n
    ELSE IF n[2][1] = "Inner" THEN Ok(IF bit = 0 THEN n[2][2] ELSE n[2][3])
    ELSE Err("UnexpectedNodeType")

tree_get_leaf(store, r, key) ==
    IF Len(key) # Depth THEN Err("IndexOutOfBounds")
    ELSE tree_leaf_of(tree_get(store, r, SubSeq(key, 1, Len(key) - 1)), key[Len(key)])

----------------------------------------------------------------------------
(* Proofs: sequences of <<index, bytes>> *)

RECURSIVE Pow2(_)
Pow2(n) == IF n = 0 THEN 1 ELSE 2 * Pow2(n - 1)

(* The sum of key byte times its power of two, most significant first. *)
RECURSIVE WeightedSum(_)
WeightedSum(key) ==
    IF key = <<>> THEN 0
    ELSE Head(key) * Pow2(Len(key) - 1) + WeightedSum(Tail(key))

(* Mutant of compute_index: the base 1 << len is left out. *)
compute_index_no_base(key) == WeightedSum(key)

(* compute_index: (1 << len) + the key read as a binary number. *)
compute_index(key) == Pow2(Len(key)) + WeightedSum(key)

(* Mutant of left_index_of: the index is taken as it is. *)
left_index_unrounded(index) == index

(* if index % 2 == 0 { index } else { index ^ 1 } *)
left_index_of(index) == IF index % 2 = 0 THEN index ELSE index - 1

(* The loop of get_proof (the same text in TreeDB and TreeDBMut) from     *)
(* level i on: <<"Ok", the node reached, the proof>> or the error.         *)
RECURSIVE proof_loop(_, _, _, _, _)

(* Mutant of proof_pair: the two child digests change places. *)
proof_pair_swapped(left_index, l, r) ==
    <<<<left_index, AsBytes(r)>>, <<left_index + 1, AsBytes(l)>>>>

(* The two tuples a round adds to the proof. *)
proof_pair(left_index, l, r) ==
    <<<<left_index, AsBytes(l)>>, <<left_index + 1, AsBytes(r)>>>>

(* After the child entry was read as n. *)
proof_from(store, key, i, proof, l, r, n) ==
    IF ~IsOk(n) THEN n
    ELSE proof_loop(store, n[2], key, i + 1,
                    proof \o proof_pair(left_index_of(compute_index(SubSeq(key, 1, i))),
                                        l, r))

(* One round, after both child digests decoded to l and r. *)
proof_round(store, key, i, proof, l, r) ==
    IF l[1] = "None" \/ r[1] = "None" THEN Panic
    ELSE proof_from(store, key, i, proof, l[2], r[2],
                    tree_read(store, IF key[i] = 0 THEN l[2] ELSE r[2]))

proof_loop(store, current_node, key, i, proof) ==
    IF i > Len(key) THEN <<"Ok", current_node, proof>>
    ELSE IF current_node[1] # "Inner" THEN Err("UnexpectedNodeType")
    ELSE proof_round(store, key, i, proof,
                     decode_hash(current_node[2]), decode_hash(current_node[3]))

(* The head of get_proof: (1, root) and the root node read from the store. *)

(* After the root entry was read as n. *)
proof_from_root(store, r, key, n) ==
    IF ~IsOk(n) THEN n
    ELSE proof_loop(store, n[2], key, 1, <<<<1, AsBytes(r)>>>>)

proof_start(store, r, key) == proof_from_root(store, r, key, tree_read(store, r))

(* Tree::get_proof for TreeDB: the root and the sibling pairs. *)
tree_proof_of(p) == IF ~IsOk(p) THEN p ELSE Ok(p[3])

tree_get_proof(store, r, key) ==
    IF Len(key) # Depth THEN Err("IndexOutOfBounds")
    ELSE tree_proof_of(proof_start(store, r, key))

(* TreeMut::get_proof for TreeDBMut: read from the store under the         *)
(* external root, with (0, value) pushed last.                             *)
proof_with_value(p) ==
    IF ~IsOk(p) THEN p
    ELSE IF p[2][1] = "Value" THEN Ok(p[3] \o <<<<0, p[2][2]>>>>)
    ELSE Err("UnexpectedNodeType")

get_proof(store, r, key) ==
    IF Len(key) # Depth THEN Err("IndexOutOfBounds")
    ELSE proof_with_value(proof_start(store, r, key))

----------------------------------------------------------------------------
(* Inputs *)

RECURSIVE BitSeqs(_)
BitSeqs(n) == IF n = 0 THEN {<<>>} ELSE {<<b>> \o s : b \in {0, 1}, s \in BitSeqs(n - 1)}

ValidKeys == BitSeqs(Depth)
Zeros(n) == [i \in 1..n |-> 0]

(* Keys of the wrong length, and keys with a byte that is no bit. *)
BadKeys == {SubSeq(Zeros(Depth), 1, Depth - 1), Zeros(Depth) \o <<0>>,
            SubSeq(Zeros(Depth), 1, Depth - 1) \o <<2>>}
AllKeys == ValidKeys \cup BadKeys

RawValues == {<<B(5)>>, <<B(10)>>}

(* Values whose bytes are two digests side by side. *)
DigestPairValues == {AsBytes(Hash(x)) \o AsBytes(Hash(y)) : x, y \in RawValues}

Values == RawValues \cup DigestPairValues

(* The values inserted where every read operation is exercised: a plain    *)
(* one and a digest pair.                                                  *)
ReadsValues == {<<B(10)>>, AsBytes(Hash(<<B(5)>>)) \o AsBytes(Hash(<<B(5)>>))}

----------------------------------------------------------------------------
(* The initial store: a dense tree of depth Depth, every node emplaced     *)
(* under its hash (build_db_mock).                                         *)

RECURSIVE SubtreeNode(_, _)
SubtreeNode(leaves, prefix) ==
    IF Len(prefix) = Depth THEN ValueNode("Cached", leaves[prefix])
    ELSE InnerNode(HashRef(NodeHashOf(SubtreeNode(leaves, prefix \o <<0>>))),
                   HashRef(NodeHashOf(SubtreeNode(leaves, prefix \o <<1>>))))

Prefixes == UNION {BitSeqs(n) : n \in 0..Depth}

DenseStore(leaves) ==
    LET nodes == {SubtreeNode(leaves, p) : p \in Prefixes}
    IN [h \in {NodeHashOf(n) : n \in nodes} |->
            Encode(CHOOSE n \in nodes : NodeHashOf(n) = h)]

InitLeaves == {[k \in ValidKeys |-> f[k[Depth]]] : f \in [{0, 1} -> RawValues]}

(* The null hash of level k: the digest of the empty subtree at that level. *)
RECURSIVE null(_)
null(k) ==
    IF k = Depth THEN Hash(<<>>)
    ELSE Hash(AsBytes(null(k + 1)) \o AsBytes(null(k + 1)))

(* The stores a writer is built over: the dense trees, and the empty store *)
(* with the root digest of the empty tree.                                 *)
InitStores ==
    {<<DenseStore(leaves), NodeHashOf(SubtreeNode(leaves, <<>>))>> : leaves \in InitLeaves}
        \cup {<<EmptyMap, null(0)>>}

(* The key-to-value mapping of the tree a writer is built over: what a     *)
(* reader of the store returns for every key of Depth bits, or the empty   *)
(* map when some key has no value there.                                   *)
view_of(store, r) ==
    IF \A k \in ValidKeys : IsOk(tree_get_value(store, r, k))
    THEN [k \in ValidKeys |-> tree_get_value(store, r, k)[2]]
    ELSE EmptyMap

(* The mapping after insert(k, v) returned r on a writer with overlay ovl  *)
(* and root handle handle: v at k after a successful insert with a key of  *)
(* bits, the same mapping after a failed insert that left the writer as it *)
(* was, and the empty map (not known) after any other.                     *)
mapping_after_insert(m, k, v, r, ovl, handle) ==
    IF m = EmptyMap THEN EmptyMap
    ELSE IF IsOk(r.res) /\ k \in ValidKeys THEN [m EXCEPT ![k] = v]
    ELSE IF ~IsOk(r.res) /\ r.storage = ovl /\ r.root_handle = handle THEN m
    ELSE EmptyMap

NoCall == [op |-> "none", key |-> <<>>, val |-> <<>>, res |-> Ok(<<>>)]

Init ==
    \E s \in InitStores :
        /\ db = s[1]
        /\ root = s[2]
        /\ storage = EmptyMap
        /\ root_handle = HashRef(root)
        /\ last = NoCall
        /\ ninserts = 0
        /\ roots = {root}
        /\ emplaced = <<>>
        /\ snapshot = [db |-> db, root |-> root]
        /\ recorder = <<>>
        /\ reads = <<>>
        /\ mapping = view_of(db, root)

----------------------------------------------------------------------------
(* Operations of the writer *)

(* The writer's fields and the call record after insert returned r. *)
InsertDone(k, v, r) ==
    /\ storage' = r.storage
    /\ root_handle' = r.root_handle
    /\ last' = [op |-> "insert", key |-> k, val |-> v, res |-> r.res]
    /\ mapping' = mapping_after_insert(mapping, k, v, r, storage, root_handle)

(* Mutant of Insert: the new value node is written to the store at once. *)
InsertWritesThrough(k, v) ==
    /\ ninserts < MaxInserts
    /\ InsertDone(k, v, insert(storage, db, root_handle, k, v))
    /\ ninserts' = ninserts + 1
    /\ db' = emplace(db, Hash(v), Encode(ValueNode("New", v)))
    /\ emplaced' = <<<<Hash(v), Encode(ValueNode("New", v))>>>>
    /\ UNCHANGED <<root, roots, snapshot, recorder, reads>>

Insert(k, v) ==
    /\ ninserts < MaxInserts
    /\ InsertDone(k, v, insert(storage, db, root_handle, k, v))
    /\ ninserts' = ninserts + 1
    /\ emplaced' = <<>>
    /\ UNCHANGED <<db, root, roots, snapshot, recorder, reads>>

(* The state after commit returned c. *)
CommitDone(c) ==
    /\ storage' = c.storage
    /\ db' = c.db
    /\ root' = c.root
    /\ root_handle' = c.root_handle
    /\ roots' = roots \cup {c.root}
    /\ snapshot' = [db |-> c.db, root |-> c.root]
    /\ emplaced' = c.emplaced

Commit ==
    /\ CommitDone(commit(storage, db, root, root_handle))
    /\ last' = [op |-> "commit", key |-> <<>>, val |-> <<>>, res |-> Ok(<<>>)]
    /\ UNCHANGED <<ninserts, recorder, reads, mapping>>

(* TreeMut::root for TreeDBMut: commit, then the external root. *)
Root ==
    /\ CommitDone(commit(storage, db, root, root_handle))
    /\ last' = [op |-> "root", key |-> <<>>, val |-> <<>>, res |-> Ok(root')]
    /\ UNCHANGED <<ninserts, recorder, reads, mapping>>

GetValue(k) ==
    /\ last' = [op |-> "get_value", key |-> k, val |-> <<>>,
                res |-> get_value(storage, db, root_handle, k)]
    /\ emplaced' = <<>>
    /\ UNCHANGED <<db, root, storage, root_handle, ninserts, roots, snapshot,
                   recorder, reads, mapping>>

GetLeaf(k) ==
    /\ last' = [op |-> "get_leaf", key |-> k, val |-> <<>>,
                res |-> get_leaf(storage, db, root_handle, k)]
    /\ emplaced' = <<>>
    /\ UNCHANGED <<db, root, storage, root_handle, ninserts, roots, snapshot,
                   recorder, reads, mapping>>

GetProof(k) ==
    /\ last' = [op |-> "get_proof", key |-> k, val |-> <<>>,
                res |-> get_proof(db, root, k)]
    /\ emplaced' = <<>>
    /\ UNCHANGED <<db, root, storage, root_handle, ninserts, roots, snapshot,
                   recorder, reads, mapping>>

(* A reader (TreeDB) built over the store and the external root is asked. *)
TreeGetValue(k) ==
    /\ last' = [op |-> "tree_get_value", key |-> k, val |-> <<>>,
                res |-> tree_get_value(db, root, k)]
    /\ emplaced' = <<>>
    /\ UNCHANGED <<db, root, storage, root_handle, ninserts, roots, snapshot,
                   recorder, reads, mapping>>

TreeGetLeaf(k) ==
    /\ last' = [op |-> "tree_get_leaf", key |-> k, val |-> <<>>,
                res |-> tree_get_leaf(db, root, k)]
    /\ emplaced' = <<>>
    /\ UNCHANGED <<db, root, storage, root_handle, ninserts, roots, snapshot,
                   recorder, reads, mapping>>

TreeGetProof(k) ==
    /\ last' = [op |-> "tree_get_proof", key |-> k, val |-> <<>>,
                res |-> tree_get_proof(db, root, k)]
    /\ emplaced' = <<>>
    /\ UNCHANGED <<db, root, storage, root_handle, ninserts, roots, snapshot,
                   recorder, reads, mapping>>

(* Mutant of Drop: the destroyed writer commits its staged changes first. *)
DropCommits ==
    /\ LET c == commit(storage, db, root, root_handle)
       IN /\ db' = c.db
          /\ root' = c.root
          /\ root_handle' = HashRef(c.root)
          /\ roots' = roots \cup {c.root}
          /\ emplaced' = c.emplaced
    /\ storage' = EmptyMap
    /\ last' = [op |-> "drop", key |-> <<>>, val |-> root_handle, res |-> Ok(<<>>)]
    /\ mapping' = view_of(db', root')
    /\ UNCHANGED <<ninserts, snapshot, recorder, reads>>

(* The writer is destroyed (TreeDBMut has no Drop implementation: its      *)
(* fields are released and nothing else runs) and a new writer is built    *)
(* over the same store and external root. last.val keeps the root handle   *)
(* the destroyed writer held.                                              *)
Drop ==
    /\ storage' = EmptyMap
    /\ root_handle' = HashRef(root)
    /\ last' = [op |-> "drop", key |-> <<>>, val |-> root_handle, res |-> Ok(<<>>)]
    /\ emplaced' = <<>>
    /\ mapping' = view_of(db, root)
    /\ UNCHANGED <<db, root, ninserts, roots, snapshot, recorder, reads>>

Next ==
    \/ \E k \in ValidKeys, v \in Values : Insert(k, v)
    \/ \E k \in BadKeys, v \in {CHOOSE x \in RawValues : TRUE} : Insert(k, v)
    \/ Commit
    \/ Root
    \/ Drop
    \/ \E k \in AllKeys : GetValue(k)
    \/ \E k \in AllKeys : GetLeaf(k)

Spec == Init /\ [][Next]_vars

(* The writer together with readers over the same store: every read and   *)
(* proof operation of both, with fewer inserted values.                    *)
NextReads ==
    \/ \E k \in AllKeys, v \in ReadsValues : Insert(k, v)
    \/ Commit
    \/ Root
    \/ \E k \in AllKeys : GetValue(k)
    \/ \E k \in AllKeys : GetLeaf(k)
    \/ \E k \in AllKeys : GetProof(k)
    \/ \E k \in AllKeys : TreeGetValue(k)
    \/ \E k \in AllKeys : TreeGetLeaf(k)
    \/ \E k \in AllKeys : TreeGetProof(k)

SpecReads == Init /\ [][NextReads]_vars

(* Stored bytes that are no node: an empty buffer, an unknown variant tag, *)
(* an inner node with a child digest that is not LENGTH bytes long.        *)
MalformedBytes ==
    {<<>>, <<U32(2), U64(0)>>, serialize(EncInner(<<B(1)>>, AsBytes(Hash(<<B(5)>>))))}

MalformedLeaves == [k \in ValidKeys |-> IF k[Depth] = 0 THEN <<B(5)>> ELSE <<B(10)>>]

(* A writer and readers over a dense store with one entry malformed. *)
InitMalformed ==
    \E h \in DOMAIN DenseStore(MalformedLeaves), m \in MalformedBytes :
        /\ db = [DenseStore(MalformedLeaves) EXCEPT ![h] = m]
        /\ root = NodeHashOf(SubtreeNode(MalformedLeaves, <<>>))
        /\ storage = EmptyMap
        /\ root_handle = HashRef(root)
        /\ last = NoCall
        /\ ninserts = 0
        /\ roots = {root}
        /\ emplaced = <<>>
        /\ snapshot = [db |-> db, root |-> root]
        /\ recorder = <<>>
        /\ reads = <<>>
        /\ mapping = view_of(db, root)

SpecMalformed == InitMalformed /\ [][NextReads]_vars

----------------------------------------------------------------------------
(* Recorder and StorageProof *)

(* Recorder::record *)
record(nodes, node) == Append(nodes, node)

(* Recorder::drain_storage_proof: every recorded node in its bincode form, *)
(* collected by StorageProof::new into a set of byte strings.              *)
drain_storage_proof(nodes) == {Encode(nodes[i]) : i \in DOMAIN nodes}

(* &node[1..]: the bytes after the first one (an encoded node starts with  *)
(* the four bytes of its variant index).                                   *)
slice_from_1(node) ==
    IF Head(node)[1] = "u32"
    THEN <<<<"u24", Head(node)[2] \div 256>>>> \o Tail(node)
    ELSE Tail(node)

(* From<StorageProof> for MemoryDB: every byte string of the proof is      *)
(* emplaced under the hash of its bytes from the second one on. (Two       *)
(* encodings of the proof never have these bytes in common: they still     *)
(* hold the length prefixes, so the order of the emplace calls is          *)
(* immaterial.)                                                            *)
into_memory_db(proof) ==
    [h \in {Hash(slice_from_1(node)) : node \in proof} |->
        CHOOSE node \in proof : Hash(slice_from_1(node)) = h]

(* The recorder's nodes after a reader has walked from the entry under    *)
(* digest h along key: every node it obtained from the store is recorded.  *)
RECURSIVE tree_recorded(_, _, _, _)

(* After decode_hash of the chosen child gave k. *)
recorded_child(nodes, store, key, k) ==
    IF k[1] = "None" THEN nodes ELSE tree_recorded(nodes, store, k[2], Tail(key))

(* After the entry was read as e. *)
recorded_from(nodes, store, key, e) ==
    IF ~IsOk(e) \/ ~IsOk(TryFromEncoded(e[2])) THEN nodes
    ELSE IF key = <<>> \/ e[2][1] # "Inner"
    THEN record(nodes, TryFromEncoded(e[2])[2])
    ELSE recorded_child(record(nodes, TryFromEncoded(e[2])[2]), store, key,
                        decode_hash(IF Head(key) = 0 THEN e[2][2] ELSE e[2][3]))

tree_recorded(nodes, store, h, key) ==
    recorded_from(nodes, store, key, tree_read(store, h))

(* The path a call walks: get_leaf stops one level above the key. *)
walked_key(op, key) ==
    IF op = "tree_get_leaf" THEN SubSeq(key, 1, Len(key) - 1) ELSE key

(* A read of the reader, by name. *)
tree_call(op, store, r, key) ==
    CASE op = "tree_get_value" -> tree_get_value(store, r, key)
      [] op = "tree_get_leaf" -> tree_get_leaf(store, r, key)
      [] OTHER -> tree_get_proof(store, r, key)

(* A reader over the store and the external root, with the recorder        *)
(* attached, is asked: op is tree_get_value, tree_get_leaf or              *)
(* tree_get_proof.                                                         *)
RecordedRead(op, k) ==
    /\ Len(reads) < MaxReads
    /\ last' = [op |-> op, key |-> k, val |-> <<>>, res |-> tree_call(op, db, root, k)]
    /\ recorder' = IF Len(k) # Depth THEN recorder
                   ELSE tree_recorded(recorder, db, root, walked_key(op, k))
    /\ reads' = Append(reads, [op |-> op, key |-> k, res |-> tree_call(op, db, root, k)])
    /\ emplaced' = <<>>
    /\ UNCHANGED <<db, root, storage, root_handle, ninserts, roots, snapshot, mapping>>

ReadOps == {"tree_get_value", "tree_get_leaf", "tree_get_proof"}

(* A producer: a reader with a recorder over one of the initial stores. *)
NextReplay == \E op \in ReadOps, k \in AllKeys : RecordedRead(op, k)

SpecReplay == Init /\ [][NextReplay]_vars

----------------------------------------------------------------------------
(* The codec on its own: a node is encoded to bytes and the bytes are      *)
(* decoded again.                                                          *)

CodecDigests == {Hash(v) : v \in Values}
CodecRefs == {HashRef(d) : d \in CodecDigests} \cup {InMemory(d) : d \in CodecDigests}

(* Well-formed nodes of either variant, with every provenance. *)
CodecNodes ==
    {ValueNode(p, v) : p \in {"Cached", "New"}, v \in Values}
        \cup {InnerNode(l, r) : l, r \in CodecRefs}

(* bincode::deserialize, then try_into *)
decode(bytes) == node_of_stored(deserialize(bytes))

RoundTrip(n) ==
    /\ last' = [op |-> "round_trip", key |-> <<>>, val |-> n, res |-> decode(Encode(n))]
    /\ emplaced' = <<>>
    /\ UNCHANGED <<db, root, storage, root_handle, ninserts, roots, snapshot,
                   recorder, reads, mapping>>

NextCodec == \E n \in CodecNodes : RoundTrip(n)

SpecCodec == Init /\ [][NextCodec]_vars

----------------------------------------------------------------------------
(* Node indices (indices.rs) *)

is_left_index(index) == index % 2 = 0

(* index ^ 1 *)
get_sibling_index(index) == IF index % 2 = 0 THEN index + 1 ELSE index - 1

sibling_indices(indices) == [i \in DOMAIN indices |-> get_sibling_index(indices[i])]

parent_index(index) ==
    IF is_left_index(index) THEN index \div 2
    ELSE get_sibling_index(index) \div 2

(* Vec::dedup: of consecutive equal elements only the first stays. *)
RECURSIVE dedup(_)
dedup(v) ==
    IF Len(v) <= 1 THEN v
    ELSE IF v[1] = v[2] THEN dedup(Tail(v))
    ELSE <<v[1]>> \o dedup(Tail(v))

parent_indices(indices) == dedup([i \in DOMAIN indices |-> parent_index(indices[i])])

Contains(v, x) == \E i \in DOMAIN v : v[i] = x

difference(a, b) == SelectSeq(a, LAMBDA x : ~Contains(b, x))

(* The loop of authentication_indices with rounds left to run. *)
RECURSIVE authentication_loop(_, _, _, _)
authentication_loop(authentication, layer_indices, compact, rounds) ==
    IF rounds = 0 THEN authentication
    ELSE authentication_loop(
            authentication
                \o difference(sibling_indices(layer_indices), layer_indices)
                \o (IF compact THEN <<>> ELSE parent_indices(layer_indices)),
            parent_indices(layer_indices), compact, rounds - 1)

authentication_indices(indices, compact, depth) ==
    authentication_loop(<<>>, indices, compact, depth)

(* The functions on their own, called with bit prefixes and with lists of  *)
(* distinct node indices of one layer.                                     *)
IndexPrefixes == UNION {BitSeqs(n) : n \in 0..MaxPrefix}

LayerOf(depth) == Pow2(depth)..(2 * Pow2(depth) - 1)

RECURSIVE DistinctLists(_, _)
DistinctLists(S, n) ==
    IF n = 0 THEN {<<>>}
    ELSE {<<>>} \cup UNION {{<<x>> \o l : l \in {m \in DistinctLists(S, n - 1) :
                                                      ~Contains(m, x)}} : x \in S}

ComputeIndex(p) ==
    /\ last' = [op |-> "compute_index", key |-> p, val |-> <<>>,
                res |-> Ok(compute_index(p))]
    /\ emplaced' = <<>>
    /\ UNCHANGED <<db, root, storage, root_handle, ninserts, roots, snapshot,
                   recorder, reads, mapping>>

(* last.val holds the compact flag and the depth of the call. *)
AuthenticationIndices(indices, compact, depth) ==
    /\ last' = [op |-> "authentication_indices", key |-> indices,
                val |-> <<compact, depth>>,
                res |-> Ok(authentication_indices(indices, compact, depth))]
    /\ emplaced' = <<>>
    /\ UNCHANGED <<db, root, storage, root_handle, ninserts, roots, snapshot,
                   recorder, reads, mapping>>

NextComputeIndex == \E p \in IndexPrefixes : ComputeIndex(p)

SpecComputeIndex == Init /\ [][NextComputeIndex]_vars

NextAuthentication ==
    \E depth \in 1..MaxLayer, compact \in BOOLEAN :
        \E indices \in DistinctLists(LayerOf(depth), MaxList) \ {<<>>} :
            AuthenticationIndices(indices, compact, depth)

SpecAuthentication == Init /\ [][NextAuthentication]_vars

----------------------------------------------------------------------------
(* Vocabulary of the properties *)

(* The writer's reads in the current state and in the next one. *)
ReadValue(k) == get_value(storage, db, root_handle, k)
ReadLeaf(k) == get_leaf(storage, db, root_handle, k)
ReadValueNext(k) == get_value(storage', db', root_handle', k)
ReadLeafNext(k) == get_leaf(storage', db', root_handle', k)

(* The step is a call of insert that returned Ok / a call of commit. *)
InsertOkStep == last'.op = "insert" /\ IsOk(last'.res)
CommitStep == last'.op = "commit"

(* The last call was a successful insert of a valid key. *)
AfterInsertOk == last.op = "insert" /\ IsOk(last.res)

----------------------------------------------------------------------------
(* C1: after insert(k, v) succeeded and commit() is then called,           *)
(* get_value(k) returns v and get_leaf(k) returns HashFn(v).               *)
C1_CommittedInsertIsRead ==
    [][(AfterInsertOk /\ CommitStep) =>
          /\ ReadValueNext(last.key) = Ok(last.val)
          /\ ReadLeafNext(last.key) = Ok(Hash(last.val))]_vars

----------------------------------------------------------------------------
(* C2: read-your-writes before commit. After a successful insert(k, v) the *)
(* writer's get_value(k) is v, get_leaf(k) is HashFn(v), the root handle   *)
(* is the hash of the node found at the empty prefix, and every node on    *)
(* the path of k refers, on the side k takes, to the hash of the next node *)
(* of the path (the hash of the new value for the last one).               *)
PathNode(i) == get(storage, db, root_handle, SubSeq(last.key, 1, i))

C2_ReadYourWrites ==
    AfterInsertOk =>
        /\ ReadValue(last.key) = Ok(last.val)
        /\ ReadLeaf(last.key) = Ok(Hash(last.val))
        /\ \A i \in 0..Depth : IsOk(PathNode(i))
        /\ get_hash(root_handle) = NodeHashOf(PathNode(0)[2])
        /\ \A i \in 0..(Depth - 1) :
              /\ IsInner(PathNode(i)[2])
              /\ get_child(PathNode(i)[2], last.key[i + 1])
                    = Ok(InMemory(NodeHashOf(PathNode(i + 1)[2])))
        /\ PathNode(Depth)[2] = ValueNode("New", last.val)

(* A successful insert has overwritten a value staged by an earlier one. *)
C2_Witness ==
    /\ AfterInsertOk
    /\ ninserts = 2
    /\ root_handle[1] = "InMemory"
    /\ Cardinality(DOMAIN storage) > Depth + 1

----------------------------------------------------------------------------
(* C3: path copy preserves siblings. A successful insert(k, v) leaves      *)
(* get_value(k2) as it was for every other key k2 of length Depth.         *)
C3_SiblingsPreserved ==
    [][InsertOkStep =>
          \A k2 \in ValidKeys \ {last'.key} : ReadValueNext(k2) = ReadValue(k2)]_vars

----------------------------------------------------------------------------
(* C4: a successful insert(k, v) returns the bytes get_value(k) returned   *)
(* just before it, whenever that get_value succeeded.                      *)
C4_InsertReturnsOld ==
    [][(InsertOkStep /\ IsOk(ReadValue(last'.key))) =>
          last'.res = ReadValue(last'.key)]_vars

(* An insert returned a value that only an earlier insert can have put. *)
C4_Witness ==
    /\ AfterInsertOk
    /\ last.res[2] \in DigestPairValues

----------------------------------------------------------------------------
(* C5: insert, successful or not, changes neither the store nor the        *)
(* external root; only commit and root change them.                        *)
C5_WritesOnlyOnCommit ==
    [][/\ last'.op = "insert" => (db' = db /\ root' = root)
       /\ (db' # db \/ root' # root) => last'.op \in {"commit", "root"}]_vars

(* Staged changes are pending after an insert and the store is as it was. *)
C5_Witness ==
    /\ last.op = "insert"
    /\ root_handle[1] = "InMemory"
    /\ get_hash(root_handle) # root
    /\ get_hash(root_handle) \notin DOMAIN db

----------------------------------------------------------------------------
(* C6: old roots stay valid. No step removes or changes a stored entry,    *)
(* and a reader over the store with any digest that has been the external  *)
(* root returns, for every key, what it returned before the step.          *)
C6_OldRootsStayValid ==
    [][db' # db =>
          /\ \A h \in DOMAIN db : h \in DOMAIN db' /\ db'[h] = db[h]
          /\ \A r \in roots : \A k \in ValidKeys :
                /\ tree_get_value(db', r, k) = tree_get_value(db, r, k)
                /\ tree_get_leaf(db', r, k) = tree_get_leaf(db, r, k)]_vars

(* Two commits have each moved the external root. *)
C6_Witness ==
    /\ Cardinality(roots) = 3
    /\ last.op = "commit"

----------------------------------------------------------------------------
(* C7: commit is idempotent. A commit entered with a stored root handle    *)
(* changes nothing; every commit leaves the handle stored, and committing  *)
(* again right after a commit gives the state the first commit left.       *)
C7_CommitIdempotent ==
    [][CommitStep =>
          /\ root_handle[1] = "Hash" => UNCHANGED <<db, storage, root_handle, root>>
          /\ root_handle'[1] = "Hash"
          /\ commit(storage', db', root', root_handle')
                = [storage |-> storage', db |-> db', root |-> root',
                   root_handle |-> root_handle', emplaced |-> <<>>]]_vars

(* A commit after inserts that moved the external root. *)
C7_Witness ==
    /\ last.op = "commit"
    /\ ninserts >= 1
    /\ root_handle = HashRef(root)
    /\ Cardinality(roots) >= 2

----------------------------------------------------------------------------
(* C8: root-handle state machine. The handle starts Stored(initial root);  *)
(* a successful insert leaves it Staged(h) with the node of hash h in the  *)
(* overlay under h; a commit entered with Staged(h) ends with Stored(h);   *)
(* no read and no failed insert changes it.                                *)
C8_RootHandleMachine ==
    /\ root_handle = HashRef(root)
    /\ [][/\ InsertOkStep =>
                /\ root_handle'[1] = "InMemory"
                /\ get_hash(root_handle') \in DOMAIN storage'
                /\ NodeHashOf(get_node(storage'[get_hash(root_handle')]))
                      = get_hash(root_handle')
          /\ (last'.op \in {"commit", "root"} /\ root_handle[1] = "InMemory") =>
                root_handle' = HashRef(get_hash(root_handle))
          /\ (last'.op \in {"get_value", "get_leaf"}
                 \/ (last'.op = "insert" /\ ~IsOk(last'.res))) =>
                root_handle' = root_handle]_vars

----------------------------------------------------------------------------
(* C9: root() flushes. It returns the digest of the current root node,     *)
(* which is the Merkle root recomputed bottom-up from what the writer's    *)
(* get_value returns for every key; on return the handle is stored and the *)
(* external root is the returned digest.                                   *)
RECURSIVE ViewRoot(_)
ViewRoot(prefix) ==
    IF Len(prefix) = Depth
    THEN IF IsOk(ReadValue(prefix)) THEN Ok(Hash(ReadValue(prefix)[2]))
         ELSE Err("unreadable")
    ELSE LET l == ViewRoot(prefix \o <<0>>)
             r == ViewRoot(prefix \o <<1>>)
         IN IF IsOk(l) /\ IsOk(r) THEN Ok(Hash(AsBytes(l[2]) \o AsBytes(r[2])))
            ELSE Err("unreadable")

C9_RootFlushes ==
    [][last'.op = "root" =>
          /\ last'.res = Ok(get_hash(root_handle))
          /\ last'.res = ViewRoot(<<>>)
          /\ root_handle' = HashRef(last'.res[2])
          /\ root' = last'.res[2]]_vars

----------------------------------------------------------------------------
(* C10: commit persists the whole staged tree. After a commit a reader     *)
(* over the store with the external root returns, for every key, the       *)
(* get_value and get_leaf the writer returned just before the commit.      *)
DigestResult(r) == IF IsOk(r) THEN Ok(AsBytes(r[2])) ELSE r

C10_CommitPersists ==
    [][last'.op \in {"commit", "root"} =>
          \A k \in ValidKeys :
             /\ tree_get_value(db', root', k) = ReadValue(k)
             /\ tree_get_leaf(db', root', k) = DigestResult(ReadLeaf(k))]_vars

----------------------------------------------------------------------------
(* C11: content addressing. Every <<key, bytes>> pair commit hands to the  *)
(* store has bytes that are the encoding of a node whose hash is the key:  *)
(* a new value v goes in as encode(Value(v)) under HashFn(v), an inner     *)
(* node as encode(Inner(l, r)) under HashFn(l || r).                       *)
ContentAddressed(p) ==
    LET e == deserialize(p[2])
    IN /\ IsOk(e)
       /\ IsOk(TryFromEncoded(e[2]))
       /\ NodeHashOf(TryFromEncoded(e[2])[2]) = p[1]
       /\ Encode(TryFromEncoded(e[2])[2]) = p[2]

C11_ContentAddressed ==
    \A i \in DOMAIN emplaced : ContentAddressed(emplaced[i])

----------------------------------------------------------------------------
(* C12: commit drains the overlay. After commit() returns the overlay      *)
(* holds no node, whatever inserts came before.                            *)
C12_CommitDrains ==
    [][CommitStep => storage' = EmptyMap]_vars

----------------------------------------------------------------------------
(* C13: dropping discards. When a writer with staged inserts is destroyed  *)
(* the store and the external root are as the last commit (or the          *)
(* construction) left them, and the next writer starts from them.          *)
DropStep == last'.op = "drop"

----------------------------------------------------------------------------
(* C14: dropping commits. When a writer that holds staged changes is       *)
(* dropped, commit() is performed: afterwards the store holds the staged   *)
(* nodes and the external root is the staged root.                         *)
C14_DropCommits ==
    [][(DropStep /\ root_handle[1] = "InMemory"
            /\ get_hash(root_handle) \in DOMAIN storage) =>
          /\ root' = get_hash(root_handle)
          /\ db' = commit(storage, db, root, root_handle).db]_vars

----------------------------------------------------------------------------
(* C15: key length check. get_value, get_leaf, get_proof of the reader and *)
(* of the writer, and insert, called with a key whose length is not Depth, *)
(* return IndexOutOfBounds (also over the empty store, where any read of   *)
(* the store would give DataNotFound) and change neither overlay, root     *)
(* handle, store nor external root.                                        *)
KeyedOps == {"insert", "get_value", "get_leaf", "get_proof",
             "tree_get_value", "tree_get_leaf", "tree_get_proof"}

C15_KeyLength ==
    [][(last'.op \in KeyedOps /\ Len(last'.key) # Depth) =>
          /\ last'.res = Err("IndexOutOfBounds")
          /\ UNCHANGED <<db, root, storage, root_handle>>]_vars

(* An insert with a key that is too short, on a writer over the empty      *)
(* store, came back with IndexOutOfBounds.                                 *)
C15_Witness ==
    /\ last.op = "insert"
    /\ Len(last.key) < Depth
    /\ db = EmptyMap
    /\ last.res = Err("IndexOutOfBounds")

----------------------------------------------------------------------------
(* C16: key byte check. For a key of length Depth holding a byte outside   *)
(* {0, 1} each of get_value, get_leaf, get_proof (reader and writer) and   *)
(* insert returns InvalidKey and changes no state.                         *)
HasBadByte(k) == \E i \in DOMAIN k : k[i] \notin {0, 1}

C16_KeyBytes ==
    [][(last'.op \in KeyedOps /\ Len(last'.key) = Depth /\ HasBadByte(last'.key)) =>
          /\ last'.res = Err("InvalidKey")
          /\ UNCHANGED <<db, root, storage, root_handle>>]_vars

----------------------------------------------------------------------------
(* C20: proof contents. On a writer with no staged changes over a          *)
(* well-formed tree, get_proof(key) for a key of Depth bits returns exactly*)
(* 2 * Depth + 2 tuples: (0, value at key), (1, root digest) and, for each *)
(* i in 1..Depth, (k_left, left child digest) and (k_left + 1, right child *)
(* digest) of the path node at level i - 1, where k_left is the index of   *)
(* key[1..i] rounded down to even (twice the index of the parent).         *)
WellFormedTree == \A k \in ValidKeys : IsOk(tree_get_value(db, root, k))

(* The stored node at a prefix of the key, as the reader finds it. *)
StoredAt(prefix) == tree_get(db, root, prefix)[2]

ExpectedProof(k) ==
    {<<0, tree_get_value(db, root, k)[2]>>, <<1, AsBytes(root)>>}
        \cup {<<2 * compute_index(SubSeq(k, 1, i - 1)),
                StoredAt(SubSeq(k, 1, i - 1))[2]>> : i \in 1..Depth}
        \cup {<<2 * compute_index(SubSeq(k, 1, i - 1)) + 1,
                StoredAt(SubSeq(k, 1, i - 1))[3]>> : i \in 1..Depth}

C20_ProofContents ==
    [][(last'.op = "get_proof" /\ last'.key \in ValidKeys
            /\ root_handle[1] = "Hash" /\ WellFormedTree) =>
          /\ IsOk(last'.res)
          /\ Len(last'.res[2]) = 2 * Depth + 2
          /\ {last'.res[2][j] : j \in DOMAIN last'.res[2]} = ExpectedProof(last'.key)]_vars

(* A proof was returned by a writer, without staged changes, over a tree   *)
(* that a commit has changed.                                              *)
C20_Witness ==
    /\ last.op = "get_proof"
    /\ last.key \in ValidKeys
    /\ IsOk(last.res)
    /\ root_handle = HashRef(root)
    /\ Cardinality(roots) >= 2
    /\ WellFormedTree

----------------------------------------------------------------------------
(* C17: malformed stored nodes surface as error values. No operation       *)
(* aborts on stored data, and an operation that reaches a store entry      *)
(* whose bytes are no well-formed node returns MalformedNode: so does      *)
(* every call with a key of Depth bytes when the entry of the root is      *)
(* malformed.                                                              *)
Malformed(bytes) ==
    \/ ~IsOk(deserialize(bytes))
    \/ ~IsOk(TryFromEncoded(deserialize(bytes)[2]))

C17_MalformedIsError ==
    [][last'.op \in KeyedOps =>
          /\ last'.res # Panic
          /\ (/\ Len(last'.key) = Depth
              /\ root_handle = HashRef(root)
              /\ root \in DOMAIN db
              /\ Malformed(db[root])) => last'.res = Err("MalformedNode")]_vars

----------------------------------------------------------------------------
(* C18: empty-tree reads. Over the empty store with the root null(0),      *)
(* root() returns null(0), and for every key of Depth bits get_value       *)
(* returns empty bytes and get_leaf returns null(Depth), for the writer    *)
(* and for the reader; no read returns DataNotFound or changes the store.  *)
EmptyTree ==
    /\ db = EmptyMap
    /\ root = null(0)
    /\ storage = EmptyMap
    /\ root_handle = HashRef(root)

C18_EmptyTreeReads ==
    [][EmptyTree =>
          /\ last'.op = "root" => last'.res = Ok(null(0))
          /\ last'.op \in {"root", "get_value", "get_leaf",
                            "tree_get_value", "tree_get_leaf"} =>
                (last'.res # Err("DataNotFound") /\ db' = db)
          /\ (last'.op \in {"get_value", "tree_get_value"}
                 /\ last'.key \in ValidKeys) => last'.res = Ok(<<>>)
          /\ (last'.op = "get_leaf" /\ last'.key \in ValidKeys) =>
                last'.res = Ok(null(Depth))
          /\ (last'.op = "tree_get_leaf" /\ last'.key \in ValidKeys) =>
                last'.res = Ok(AsBytes(null(Depth)))]_vars

----------------------------------------------------------------------------
(* C19: sparse insert. On a writer over the empty tree insert(k, v)        *)
(* succeeds and returns empty bytes as the old value; afterwards           *)
(* get_value(k) is v, and every other key reads empty bytes and the leaf   *)
(* null(Depth).                                                            *)
C19_SparseInsert ==
    [][(EmptyTree /\ last'.op = "insert" /\ last'.key \in ValidKeys) =>
          /\ last'.res = Ok(<<>>)
          /\ ReadValueNext(last'.key) = Ok(last'.val)
          /\ \A k2 \in ValidKeys \ {last'.key} :
                /\ ReadValueNext(k2) = Ok(<<>>)
                /\ ReadLeafNext(k2) = Ok(null(Depth))]_vars

----------------------------------------------------------------------------
(* C21: reader and writer proofs agree. For the same store, root and key   *)
(* of Depth bits the reader's get_proof returns the same set of tuples as  *)
(* the get_proof of a writer with no staged changes, and the reader's      *)
(* proof holds the tuple (0, value bytes).                                 *)
TupleSet(res) == IF IsOk(res) THEN {res[2][j] : j \in DOMAIN res[2]} ELSE {res}

C21_ProofsAgree ==
    [][(last'.op = "tree_get_proof" /\ last'.key \in ValidKeys
            /\ root_handle = HashRef(root) /\ WellFormedTree) =>
          /\ TupleSet(last'.res) = TupleSet(get_proof(db, root, last'.key))
          /\ <<0, tree_get_value(db, root, last'.key)[2]>> \in TupleSet(last'.res)]_vars

----------------------------------------------------------------------------
(* C22: the writer's get_proof uses the staged view. Right after a         *)
(* successful insert(k, v), before any commit, get_proof(k) holds (0, v),  *)
(* its index-1 entry is the digest of the staged root node, and its        *)
(* sibling digests are those of the path nodes the writer's lookup finds   *)
(* in the staged tree.                                                     *)
StagedAt(prefix) == get(storage, db, root_handle, prefix)[2]

StagedProof(k, v) ==
    {<<0, v>>, <<1, AsBytes(get_hash(root_handle))>>}
        \cup {<<2 * compute_index(SubSeq(k, 1, i - 1)),
                AsBytes(get_hash(StagedAt(SubSeq(k, 1, i - 1))[2]))>> : i \in 1..Depth}
        \cup {<<2 * compute_index(SubSeq(k, 1, i - 1)) + 1,
                AsBytes(get_hash(StagedAt(SubSeq(k, 1, i - 1))[3]))>> : i \in 1..Depth}

C22_ProofOfStagedView ==
    [][(AfterInsertOk /\ last.key \in ValidKeys /\ root_handle[1] = "InMemory"
            /\ last'.op = "get_proof" /\ last'.key = last.key) =>
          TupleSet(last'.res) = StagedProof(last.key, last.val)]_vars

----------------------------------------------------------------------------
(* C23: reader and writer reads agree. Over a well-formed tree a writer    *)
(* with no staged changes returns, for every key of Depth bits, the        *)
(* get_value bytes and the get_leaf digest a reader over the same store    *)
(* and root returns, and in both get_leaf(k) is HashFn(get_value(k)).      *)
NothingStaged == storage = EmptyMap /\ root_handle = HashRef(root)

----------------------------------------------------------------------------
(* C24: replay. The calls made on a reader with a recorder attached, run   *)
(* again on a reader over the store reconstituted from the recorder's      *)
(* storage proof, with the same root and depth, return what they returned  *)
(* on the producer.                                                        *)
ReplayStore == into_memory_db(drain_storage_proof(recorder))

C24_Replay ==
    \A i \in DOMAIN reads :
        tree_call(reads[i].op, ReplayStore, root, reads[i].key) = reads[i].res

----------------------------------------------------------------------------
(* C25: proof reconstitution keys. Every node the recorder put into the    *)
(* storage proof is filed, in the store made from the proof, under the     *)
(* hash of the node (HashFn(value bytes), HashFn(left || right)), the key  *)
(* the producer's store holds it under, and the bytes stored there decode  *)
(* back to the recorded node.                                              *)
FiledUnderHash(store, node) ==
    /\ NodeHashOf(node) \in DOMAIN store
    /\ IsOk(deserialize(store[NodeHashOf(node)]))
    /\ TryFromEncoded(deserialize(store[NodeHashOf(node)])[2]) = Ok(node)

C25_ReconstitutionKeys ==
    \A i \in DOMAIN recorder :
        /\ FiledUnderHash(db, recorder[i])
        /\ FiledUnderHash(ReplayStore, recorder[i])

----------------------------------------------------------------------------
(* C26: codec round trip. For every well-formed node n, with any           *)
(* provenance, decoding the encoding of n gives n, and the hash computed   *)
(* from the encoded form is Node::hash(n).                                 *)
C26_RoundTrip ==
    last.op = "round_trip" =>
        /\ last.res = Ok(last.val)
        /\ encoded_hash(ToEncoded(last.val)) = NodeHashOf(last.val)

(* C26 as amended: decoding the encoding of n gives n with its provenance  *)
(* reset (a value comes back Cached, a child reference comes back Stored), *)
(* which is n itself when n carries no New or Staged provenance; the hash  *)
(* computed from the encoded form, before and after the bytes, is          *)
(* Node::hash(n).                                                          *)
AsStored(n) ==
    IF IsValue(n) THEN ValueNode("Cached", n[3])
    ELSE InnerNode(HashRef(get_hash(n[2])), HashRef(get_hash(n[3])))

C26_RoundTripUpToProvenance ==
    last.op = "round_trip" =>
        /\ last.res = Ok(AsStored(last.val))
        /\ (IF IsValue(last.val) THEN last.val[2] = "Cached"
            ELSE last.val[2][1] = "Hash" /\ last.val[3][1] = "Hash") =>
              last.res = Ok(last.val)
        /\ encoded_hash(ToEncoded(last.val)) = NodeHashOf(last.val)
        /\ encoded_hash(deserialize(Encode(last.val))[2]) = NodeHashOf(last.val)
        /\ NodeHashOf(last.res[2]) = NodeHashOf(last.val)

(* An inner node with a staged child and two different children went       *)
(* through the codec.                                                      *)
C26_Witness ==
    /\ last.op = "round_trip"
    /\ IsInner(last.val)
    /\ last.val[2][1] = "InMemory"
    /\ get_hash(last.val[2]) # get_hash(last.val[3])
    /\ IsOk(last.res)

----------------------------------------------------------------------------
----------------------------------------------------------------------------
(* C28: authentication_indices. For a list of different node indices of    *)
(* one layer, in any order, the compact result holds exactly, each once,   *)
(* the siblings of the path nodes of every layer that are not path nodes   *)
(* of that layer; the non-compact result holds, besides, every ancestor of *)
(* the inputs once, and ends with the root index 1.                        *)
RECURSIVE PathLayer(_, _)
PathLayer(indices, j) ==
    IF j = 0 THEN {indices[i] : i \in DOMAIN indices}
    ELSE {x \div 2 : x \in PathLayer(indices, j - 1)}

NeededSiblings(indices, depth) ==
    UNION {{get_sibling_index(x) : x \in PathLayer(indices, j)} \ PathLayer(indices, j) :
              j \in 0..(depth - 1)}

Ancestors(indices, depth) == UNION {PathLayer(indices, j) : j \in 1..depth}

NoDuplicates(v) == \A i, j \in DOMAIN v : v[i] = v[j] => i = j

Elements(v) == {v[i] : i \in DOMAIN v}

C28_AuthenticationIndices ==
    last.op = "authentication_indices" =>
        /\ NoDuplicates(last.res[2])
        /\ last.val[1] =>
              Elements(last.res[2]) = NeededSiblings(last.key, last.val[2])
        /\ ~last.val[1] =>
              /\ Elements(last.res[2])
                    = NeededSiblings(last.key, last.val[2])
                         \cup Ancestors(last.key, last.val[2])
              /\ last.res[2][Len(last.res[2])] = 1

----------------------------------------------------------------------------
(* C29: insert is atomic on error. Whenever insert(k, v) returns an error, *)
(* also when the node found at level Depth is an inner node, the overlay,  *)
(* the root handle, the store and the external root are as before the      *)
(* call.                                                                   *)
C29_InsertAtomicOnError ==
    [][(last'.op = "insert" /\ last'.res[1] = "Err") =>
          UNCHANGED <<storage, root_handle, db, root>>]_vars

----------------------------------------------------------------------------
(* C30: lookup stability. Every overlay entry is keyed by the hash of the  *)
(* node it holds, and for every digest that lookup resolved to a node      *)
(* before an insert or a commit, lookup afterwards returns a node of the   *)
(* same variant with the same value bytes or child digests: no overlay     *)
(* entry shadows a different node, also when an inserted value is the      *)
(* bytes left || right of an existing inner node.                          *)
Resolves(h) == lookup(storage, db, h)
ResolvesNext(h) == lookup(storage', db', h)

C30_LookupStable ==
    /\ [](\A h \in DOMAIN storage : NodeHashOf(get_node(storage[h])) = h)
    /\ [][last'.op \in {"insert", "commit", "root"} =>
             \A h \in (DOMAIN storage) \cup (DOMAIN db) :
                IsOk(Resolves(h)) =>
                   /\ IsOk(ResolvesNext(h))
                   /\ AsStored(ResolvesNext(h)[2]) = AsStored(Resolves(h)[2])]_vars

----------------------------------------------------------------------------
(* C31: proof soundness. In every proof the writer's get_proof(key)        *)
(* returns for a key of Depth bits, each index of the path is listed once, *)
(* HashFn of the index-0 value is the                                      *)
(* digest listed at index(key), and for each level i in 1..Depth HashFn of *)
(* the digests listed at k_left and k_left + 1, side by side, is the       *)
(* digest listed at k_left / 2 (at index 1 for i = 1); folding the proof   *)
(* from the value upward along the key gives the index-1 digest, which is  *)
(* the external root. The level equations hold in the reader's proofs too. *)
Listed(P, i) == {t[2] : t \in {u \in P : u[1] = i}}

(* k_left of level i: the index of key[1..i] rounded down to even. *)
KLeft(key, i) == 2 * (compute_index(SubSeq(key, 1, i)) \div 2)

ValueFolds(P, key) ==
    \E v \in Listed(P, 0) :
        /\ Listed(P, 0) = {v}
        /\ Listed(P, compute_index(key)) = {AsBytes(Hash(v))}

LevelFolds(P, kl) ==
    \E l \in Listed(P, kl), r \in Listed(P, kl + 1) :
        /\ Listed(P, kl) = {l}
        /\ Listed(P, kl + 1) = {r}
        /\ Listed(P, kl \div 2) = {AsBytes(Hash(l \o r))}

(* The digest of the path node at level i, computed from the value and the *)
(* siblings the proof lists, as a verifier that knows only the key does.   *)
RECURSIVE Fold(_, _, _)
Fold(P, key, i) ==
    IF i = Len(key) THEN AsBytes(Hash(CHOOSE v \in Listed(P, 0) : TRUE))
    ELSE IF key[i + 1] = 0
    THEN AsBytes(Hash(Fold(P, key, i + 1)
                        \o (CHOOSE r \in Listed(P, KLeft(key, i + 1) + 1) : TRUE)))
    ELSE AsBytes(Hash((CHOOSE l \in Listed(P, KLeft(key, i + 1)) : TRUE)
                        \o Fold(P, key, i + 1)))

C31_ProofSoundness ==
    [][(last'.op \in {"get_proof", "tree_get_proof"} /\ last'.key \in ValidKeys
            /\ IsOk(last'.res)) =>
          /\ Listed(TupleSet(last'.res), 1) = {AsBytes(root)}
          /\ \A i \in 1..Depth :
                LevelFolds(TupleSet(last'.res), KLeft(last'.key, i))
          /\ last'.op = "get_proof" =>
                /\ ValueFolds(TupleSet(last'.res), last'.key)
                /\ Fold(TupleSet(last'.res), last'.key, 0) = AsBytes(root)]_vars

(* The writer returned a proof over a tree that a commit has changed, in   *)
(* which the two children of the root have different digests.              *)
C31_Witness ==
    /\ last.op = "get_proof"
    /\ last.key \in ValidKeys
    /\ IsOk(last.res)
    /\ Cardinality(roots) >= 2
    /\ Listed(TupleSet(last.res), 2) # Listed(TupleSet(last.res), 3)
    /\ Fold(TupleSet(last.res), last.key, 0) = AsBytes(root)

----------------------------------------------------------------------------
(* C32: history independence. The root is a function of the key-to-value   *)
(* mapping alone: whatever successful inserts (of keys of Depth bits) and  *)
(* commits led to the mapping, the digest under the writer's root handle   *)
(* is the Merkle root of the dense tree with the mapping's values, commit  *)
(* makes that digest the external root and root() returns it. A successful *)
(* insert(k, v) with v what get_value(k) returned just before leaves the   *)
(* root digest as it was. The order of two inserts to different keys does  *)
(* not show in the mapping, so it does not show in the root.               *)
Known(m) == DOMAIN m = ValidKeys

MerkleRoot(m) == NodeHashOf(SubtreeNode(m, <<>>))

C32_HistoryIndependence ==
    /\ [](Known(mapping) => get_hash(root_handle) = MerkleRoot(mapping))
    /\ [][(last'.op \in {"commit", "root"} /\ Known(mapping')) =>
             /\ root' = MerkleRoot(mapping')
             /\ last'.op = "root" => last'.res = Ok(root')]_vars
    /\ [][(InsertOkStep /\ last'.key \in ValidKeys
              /\ ReadValue(last'.key) = Ok(last'.val)) =>
             get_hash(root_handle') = get_hash(root_handle)]_vars

(* root() returned after two successful inserts, to two keys, of values    *)
(* the tree did not hold, the mapping being known.                         *)
C32_Witness ==
    /\ last.op = "root"
    /\ Known(mapping)
    /\ ninserts = 2
    /\ Cardinality({k \in ValidKeys : mapping[k] \in DigestPairValues}) = 1
    /\ Cardinality({k \in ValidKeys : mapping[k] \in RawValues}) = Cardinality(ValidKeys) - 1
    /\ Cardinality({mapping[k] : k \in ValidKeys}) = 3

====
